---- MODULE Spec2Model ----
(***************************************************************************)
(* Model of main.py of ghas-to-csv: configuration resolution, the admin    *)
(* lookup, the three scope branches of the orchestrator and the CSV        *)
(* writer.  Strings that the code takes apart (the FEATURES variable, the  *)
(* server version, exception texts) are sequences of pieces, so that       *)
(* split, startswith, lower and "in" are computed and not assumed.         *)
(***************************************************************************)
EXTENDS Integers, Sequences, FiniteSets, TLC

VARIABLES
    report_scope,        \* GITHUB_REPORT_SCOPE
    scope_name,          \* SCOPE_NAME
    requested_features,  \* FEATURES: [set |-> BOOLEAN, pieces |-> pieces of the string]
    features,            \* the resolved feature list
    admin_details,       \* repository full name -> list of admin logins
    version,             \* result of the enterprise version probe (characters)
    lists,               \* secrets_list, cs_list, dependabot_list, by feature
    files,               \* file name -> rows written (each row a list of fields)
    pc,                  \* position of the script
    stage,               \* which feature block of the scope's branch (1..3)
    exc,                 \* text of the exception that ended the run, in pieces
    exit_code,           \* process exit status once the run has ended, else -1
    stderr,              \* message of exit(), "" if none
    trace                \* history of HTTP calls, errors, skips and writes

vars == <<report_scope, scope_name, requested_features, features, admin_details,
          version, lists, files, pc, stage, exc, exit_code, stderr, trace>>

---------------------------------------------------------------------------
(* Bounds of the model *)

MaxPieces == 4      \* pieces of the FEATURES string in SpecConfig
MaxAlerts == 2      \* alerts returned by one fetch
MaxCollab == 2      \* collaborators returned by the admin lookup

SeqsUpTo(S, n) == UNION {[1..k -> S] : k \in 0..n}

---------------------------------------------------------------------------
(* Constants of main.py *)

FEATURES == <<"secretscanning", "codescanning", "dependabot">>

secret_scanning_disabled_strings ==
    <<"secret scanning is not enabled", "secret scanning is disabled">>

dependabot_disabled_strings ==
    <<"dependabot alerts are not enabled", "dependabot alerts are disabled">>

Range(s) == {s[i] : i \in DOMAIN s}

\* Python's "x in list"
InList(x, list) == \E i \in DOMAIN list : list[i] = x

ValidScopes == {"enterprise", "organization", "repository"}

---------------------------------------------------------------------------
(* Configuration resolution, main.py lines 36-46 *)

FeaturePieces == {",", "secretscanning", "codescanning", "dependabot", "bogus", "all"}

RECURSIVE Concat(_)
\* the string the pieces spell
Concat(pieces) ==
    IF pieces = <<>> THEN "" ELSE Head(pieces) \o Concat(Tail(pieces))

RECURSIVE SplitFrom(_, _, _, _)
SplitFrom(pieces, i, cur, acc) ==
    IF i > Len(pieces) THEN Append(acc, cur)
    ELSE IF pieces[i] = "," THEN SplitFrom(pieces, i + 1, "", Append(acc, cur))
    ELSE SplitFrom(pieces, i + 1, cur \o pieces[i], acc)

\* str.split(","): the entries between the commas, empty ones included
Split(pieces) == SplitFrom(pieces, 1, "", <<>>)

\* list.remove(x): drops the first occurrence of x
RemoveFirst(list, x) ==
    LET k == CHOOSE i \in DOMAIN list : list[i] = x /\ \A j \in 1..(i - 1) : list[j] # x
    IN  SubSeq(list, 1, k - 1) \o SubSeq(list, k + 1, Len(list))

RECURSIVE RemoveLoop(_, _)
\* "for f in features: if f not in FEATURES: features.remove(f)": the list
\* iterator holds an index into the list being mutated, and advances by one
\* after every pass, whether or not an entry was removed.
RemoveLoop(list, i) ==
    IF i > Len(list) THEN list
    ELSE IF ~InList(list[i], FEATURES)
         THEN RemoveLoop(RemoveFirst(list, list[i]), i + 1)
         ELSE RemoveLoop(list, i + 1)

ResolvedFeatures(req) ==
    IF (~req.set) \/ (Concat(req.pieces) = "all")
    THEN FEATURES
    ELSE RemoveLoop(Split(req.pieces), 1)

Unset == [set |-> FALSE, pieces |-> <<>>]
EnvValue(pieces) == [set |-> TRUE, pieces |-> pieces]

\* FEATURES values of the full runs ("all" resolves like the unset variable
\* and is among the values of the configuration-only specification)
RunFeatureInputs ==
    { Unset,
      EnvValue(<<"secretscanning">>),
      EnvValue(<<"codescanning", ",", "dependabot">>),
      EnvValue(<<"secretscanning", ",", "bogus">>),
      EnvValue(<<"bogus", ",", "all", ",", "dependabot", ",", "dependabot">>) }

\* FEATURES values of the configuration-only specification
ConfigFeatureInputs ==
    {Unset} \cup {EnvValue(p) : p \in SeqsUpTo(FeaturePieces, MaxPieces)}

ScopeNames == {"octo/app"}
RepoNames == {"octo/app", "octo/lib"}
ReportScopes == ValidScopes \cup {"team"}

InitWith(inputs) ==
    /\ report_scope \in ReportScopes
    /\ scope_name \in ScopeNames
    /\ requested_features \in inputs
    /\ features = <<>>
    /\ admin_details = <<>>
    /\ version = <<>>
    /\ lists = [f \in Range(FEATURES) |-> <<>>]
    /\ files = <<>>
    /\ pc = "config"
    /\ stage = 0
    /\ exc = <<>>
    /\ exit_code = -1
    /\ stderr = ""
    /\ trace = <<>>

Init == InitWith(RunFeatureInputs)

InitConfig == InitWith(ConfigFeatureInputs)

ResolveFeatures ==
    /\ pc = "config"
    /\ features' = ResolvedFeatures(requested_features)
    /\ pc' = "admins"
    /\ UNCHANGED <<report_scope, scope_name, requested_features, admin_details,
                   version, lists, files, stage, exc, exit_code, stderr, trace>>

NextConfig == ResolveFeatures

SpecConfig == InitConfig /\ [][NextConfig]_vars

---------------------------------------------------------------------------
(* Admin lookup, main.py lines 49-59 and 77-85 *)

Logins == {"alice", "bob"}

\* bodies of the collaborators endpoint: distinct collaborators, each with
\* its permissions.admin flag
Collaborators ==
    {c \in SeqsUpTo([login : Logins, admin : BOOLEAN], MaxCollab) :
        \A i, j \in DOMAIN c : i # j => c[i].login # c[j].login}

\* the list comprehension of get_repo_admins
get_repo_admins(response) ==
    LET admins == SelectSeq(response, LAMBDA c : c.admin)
    IN  [i \in DOMAIN admins |-> admins[i].login]

\* faulty variant: the lookup runs whatever the scope
NeedsAdminLookupAlways(scope) == TRUE

NeedsAdminLookup(scope) ==
    scope = "repository" \/ scope \in {"organization", "enterprise"}

Event(kind, feature, detail, text) ==
    [kind |-> kind, feature |-> feature, detail |-> detail, text |-> text]

\* position after a feature block: the next block, or the end of the script
AfterBlock ==
    IF stage = Len(FEATURES)
    THEN /\ pc' = "finished"
         /\ stage' = stage
         /\ exit_code' = 0
    ELSE /\ pc' = "gate"
         /\ stage' = stage + 1
         /\ exit_code' = exit_code

\* an exception nobody catches: traceback, exit status 1
Uncaught(e) ==
    /\ pc' = "raised"
    /\ exc' = e
    /\ exit_code' = 1

HTTPError == <<"500 Server Error">>

AdminLookup ==
    /\ pc = "admins"
    /\ NeedsAdminLookup(report_scope)
    /\ \E response \in Collaborators :
          admin_details' = (scope_name :> get_repo_admins(response))
    /\ trace' = Append(trace, Event("request", "", "collaborators", <<>>))
    /\ pc' = "dispatch"
    /\ UNCHANGED <<report_scope, scope_name, requested_features, features,
                   version, lists, files, stage, exc, exit_code, stderr>>

\* raise_for_status() on a non-2xx answer; nothing catches it
AdminLookupRaises ==
    /\ pc = "admins"
    /\ NeedsAdminLookup(report_scope)
    /\ trace' = Append(trace, Event("request", "", "collaborators", <<>>))
    /\ Uncaught(HTTPError)
    /\ UNCHANGED <<report_scope, scope_name, requested_features, features,
                   admin_details, version, lists, files, stage, stderr>>

NoAdminLookup ==
    /\ pc = "admins"
    /\ ~NeedsAdminLookup(report_scope)
    /\ pc' = "dispatch"
    /\ UNCHANGED <<report_scope, scope_name, requested_features, features,
                   admin_details, version, lists, files, stage, exc, exit_code,
                   stderr, trace>>

---------------------------------------------------------------------------
(* The scope branches, main.py lines 88-181 *)

\* faulty variant: the enterprise order in every scope
OrderOfEnterprise(scope) == <<"secretscanning", "codescanning", "dependabot">>

\* order of the feature blocks in a scope's branch
Order(scope) ==
    IF scope = "enterprise"
    THEN <<"secretscanning", "codescanning", "dependabot">>
    ELSE <<"codescanning", "dependabot", "secretscanning">>

FileName(scope, feature) ==
    CASE feature = "secretscanning" -> scope \o "_secret_scanning.csv"
      [] feature = "codescanning"   -> scope \o "_code_scanning.csv"
      [] feature = "dependabot"     -> scope \o "_dependabot.csv"

\* the block's try/except: the phrases its handler looks for; code scanning
\* has no try
HandlerStrings(feature) ==
    CASE feature = "secretscanning" -> secret_scanning_disabled_strings
      [] feature = "codescanning"   -> <<>>
      [] feature = "dependabot"     -> dependabot_disabled_strings

\* str.lower() on a piece of text
LowerPiece(p) ==
    CASE p = "Secret scanning is disabled"       -> "secret scanning is disabled"
      [] p = "Dependabot alerts are not enabled" -> "dependabot alerts are not enabled"
      [] p = "403 Client Error: "                -> "403 client error: "
      [] p = "500 Server Error"                  -> "500 server error"
      [] p = "Advanced Security must be enabled for this repository to use code scanning"
           -> "advanced security must be enabled for this repository to use code scanning"
      [] OTHER -> p

Lower(text) == [i \in DOMAIN text |-> LowerPiece(text[i])]

\* Python's "x in s" on strings, at the grain of the pieces
Contains(text, x) == \E i \in DOMAIN text : text[i] = x

\* faulty variant: the text is matched without lower()
HandlesCaseSensitive(feature, e) ==
    \E k \in DOMAIN HandlerStrings(feature) :
        Contains(e, HandlerStrings(feature)[k])

\* faulty variant: a handler that swallows every exception of its block
HandlesAnything(feature, e) == HandlerStrings(feature) # <<>>

\* any(x in str(e).lower() for x in strings)
Handles(feature, e) ==
    \E k \in DOMAIN HandlerStrings(feature) :
        Contains(Lower(e), HandlerStrings(feature)[k])

\* texts of the exceptions a fetch can raise
ExcTexts ==
    { <<"403 Client Error: ", "Secret scanning is disabled", " on this repository.">>,
      <<"secret scanning is not enabled">>,
      <<"403 Client Error: ", "Dependabot alerts are not enabled", " for this repository.">>,
      <<"dependabot alerts are disabled">>,
      <<"403 Client Error: ",
        "Advanced Security must be enabled for this repository to use code scanning">>,
      HTTPError }

IndexError == <<"list index out of range">>

---------------------------------------------------------------------------
(* Alert records returned by the fetchers (src.secret_scanning,            *)
(* src.code_scanning, src.dependabot, imported by main.py; the shape of    *)
(* their results follows the data model of the specification): a record    *)
(* is an ordered mapping, here a sequence of                               *)
(* <<key, value>> pairs; it carries a "repository" key in organization and *)
(* enterprise scope and none in repository scope.                          *)

Keys(record) == [i \in DOMAIN record |-> record[i][1]]
Values(record) == [i \in DOMAIN record |-> record[i][2]]

AlertRecords(scope) ==
    IF scope = "repository"
    THEN { <<<<"number", "1">>, <<"state", "open">>>>,
           <<<<"number", "2">>>> }
    ELSE { <<<<"number", "2">>>> }
         \cup { <<<<"number", "1">>, <<"repository", r>>>> : r \in RepoNames }

\* one answer of a fetcher: distinct alerts
AlertLists(scope) ==
    {d \in SeqsUpTo(AlertRecords(scope), MaxAlerts) :
        \A i, j \in DOMAIN d : i # j => d[i] # d[j]}

\* answers of the enterprise version probe, as characters
Versions ==
    { <<"3", ".", "4", ".", "2">>,
      <<"3", ".", "5", ".", "0">>,
      <<"3", ".", "6", ".", "1">>,
      <<"3", ".", "7", ".", "0">>,
      <<"3", ".", "9", ".", "0">>,
      <<"3", ".", "1", "0", ".", "2">>,
      <<"3", ".", "5", "0", ".", "0">>,
      <<"G", "H", "E", "C">> }

---------------------------------------------------------------------------
(* Report writer, main.py lines 62-71 *)

\* dict.get(key, default) on a record
Get(record, key, default) ==
    IF \E i \in DOMAIN record : record[i][1] = key
    THEN record[CHOOSE i \in DOMAIN record : record[i][1] = key][2]
    ELSE default

\* faulty variant: an unknown repository gets the admins of the map's only entry
AdminsOfOrOnly(details, repo) ==
    IF repo \in DOMAIN details THEN details[repo]
    ELSE IF DOMAIN details # {} THEN details[CHOOSE r \in DOMAIN details : TRUE]
    ELSE <<>>

\* dict.get(key, default) on the admin map
AdminsOf(details, repo) ==
    IF repo \in DOMAIN details THEN details[repo] ELSE <<>>

RECURSIVE Join(_)
\* ', '.join(list)
Join(list) ==
    IF list = <<>> THEN ""
    ELSE IF Len(list) = 1 THEN list[1]
    ELSE list[1] \o ", " \o Join(Tail(list))

\* faulty variant: row.get('repository') without the default
RowRepoNoDefault(row, name) == Get(row, "repository", "")

\* row.get('repository', scope_name)
RowRepo(row, name) == Get(row, "repository", name)

CsvRow(row, details, name) ==
    Values(row) \o <<Join(AdminsOf(details, RowRepo(row, name)))>>

\* faulty variant: the header is taken from the last record
CsvHeaderOfLast(data) == Keys(data[Len(data)]) \o <<"Admins">>

CsvHeader(data) == Keys(data[1]) \o <<"Admins">>

\* what write_csv_with_admins leaves in the file, and the exception it ends
\* with (<<>> if it returns): open() creates the file before data[0] is read
write_csv_with_admins(data, details, name) ==
    IF data = <<>>
    THEN [rows |-> <<>>, raised |-> IndexError]
    ELSE [rows |-> <<CsvHeader(data)>>
                   \o [i \in DOMAIN data |-> CsvRow(data[i], details, name)],
          raised |-> <<>>]

---------------------------------------------------------------------------
(* Orchestrator, main.py lines 88-181 *)

Feature == Order(report_scope)[stage]

Dispatch ==
    /\ pc = "dispatch"
    /\ report_scope \in ValidScopes
    /\ pc' = "gate"
    /\ stage' = 1
    /\ UNCHANGED <<report_scope, scope_name, requested_features, features,
                   admin_details, version, lists, files, exc, exit_code, stderr,
                   trace>>

\* the final else: exit("Invalid report scope") prints the message to
\* standard error and ends the process with status 1
InvalidScope ==
    /\ pc = "dispatch"
    /\ report_scope \notin ValidScopes
    /\ pc' = "exit"
    /\ stderr' = "Invalid report scope"
    /\ exit_code' = 1
    /\ UNCHANGED <<report_scope, scope_name, requested_features, features,
                   admin_details, version, lists, files, stage, exc, trace>>

\* if "<feature>" in features: not requested, the block is passed over
SkipFeature ==
    /\ pc = "gate"
    /\ ~InList(Feature, features)
    /\ AfterBlock
    /\ UNCHANGED <<report_scope, scope_name, requested_features, features,
                   admin_details, version, lists, files, exc, stderr, trace>>

\* only the enterprise code scanning block probes the server version first
ProbesVersion(scope, feature) == scope = "enterprise" /\ feature = "codescanning"

EnterFeature ==
    /\ pc = "gate"
    /\ InList(Feature, features)
    /\ pc' = IF ProbesVersion(report_scope, Feature) THEN "probe" ELSE "fetch"
    /\ UNCHANGED <<report_scope, scope_name, requested_features, features,
                   admin_details, version, lists, files, stage, exc, exit_code,
                   stderr, trace>>

GetEnterpriseVersion ==
    /\ pc = "probe"
    /\ \E v \in Versions : version' = v
    /\ trace' = Append(trace, Event("request", Feature, "meta", <<>>))
    /\ pc' = "fetch"
    /\ UNCHANGED <<report_scope, scope_name, requested_features, features,
                   admin_details, lists, files, stage, exc, exit_code, stderr>>

\* str.startswith
StartsWith(s, prefix) ==
    Len(s) >= Len(prefix) /\ SubSeq(s, 1, Len(prefix)) = prefix

\* version.startswith("3.5") or version.startswith("3.6")
UsesRepoLoop(v) ==
    StartsWith(v, <<"3", ".", "5">>) \/ StartsWith(v, <<"3", ".", "6">>)

\* the requests of a block's fetch, in order
FetchRequests(scope, feature, v) ==
    IF ProbesVersion(scope, feature)
    THEN IF UsesRepoLoop(v)
         THEN <<Event("request", feature, "repo_report", <<>>),
                Event("request", feature, "repo_alerts", <<>>)>>
         ELSE <<Event("request", feature, "enterprise_alerts", <<>>)>>
    ELSE <<Event("request", feature, "alerts", <<>>)>>

\* an exception inside a feature block: the block's handler prints the skip
\* notice and the script goes on, or the exception leaves the script
Raise(e, events) ==
    IF Handles(Feature, e)
    THEN /\ AfterBlock
         /\ exc' = exc
         /\ trace' = trace \o events \o <<Event("skip", Feature, "", <<>>)>>
    ELSE /\ Uncaught(e)
         /\ stage' = stage
         /\ trace' = trace \o events

FetchAlerts ==
    /\ pc = "fetch"
    /\ \E data \in AlertLists(report_scope) :
          lists' = [lists EXCEPT ![Feature] = data]
    /\ trace' = trace \o FetchRequests(report_scope, Feature, version)
    /\ pc' = "write"
    /\ UNCHANGED <<report_scope, scope_name, requested_features, features,
                   admin_details, version, files, stage, exc, exit_code, stderr>>

FetchRaises ==
    /\ pc = "fetch"
    /\ \E e \in ExcTexts :
          Raise(e, <<Head(FetchRequests(report_scope, Feature, version)),
                     Event("error", Feature, "fetch", e)>>)
    /\ UNCHANGED <<report_scope, scope_name, requested_features, features,
                   admin_details, version, lists, files, stderr>>

\* the version probe is outside any try
ProbeRaises ==
    /\ pc = "probe"
    /\ trace' = trace \o <<Event("request", Feature, "meta", <<>>),
                           Event("error", Feature, "probe", HTTPError)>>
    /\ Uncaught(HTTPError)
    /\ UNCHANGED <<report_scope, scope_name, requested_features, features,
                   admin_details, version, lists, files, stage, stderr>>

WriteCsv ==
    /\ pc = "write"
    /\ LET name == FileName(report_scope, Feature)
           out == write_csv_with_admins(lists[Feature], admin_details, scope_name)
           written == Event("write", Feature, name, <<>>)
       IN  /\ files' = (name :> out.rows) @@ files
           /\ IF out.raised = <<>>
              THEN /\ AfterBlock
                   /\ exc' = exc
                   /\ trace' = Append(trace, written)
              ELSE Raise(out.raised,
                         <<written, Event("error", Feature, "write", out.raised)>>)
    /\ UNCHANGED <<report_scope, scope_name, requested_features, features,
                   admin_details, version, lists, stderr>>

Next ==
    \/ ResolveFeatures
    \/ AdminLookup
    \/ AdminLookupRaises
    \/ NoAdminLookup
    \/ Dispatch
    \/ InvalidScope
    \/ SkipFeature
    \/ EnterFeature
    \/ GetEnterpriseVersion
    \/ ProbeRaises
    \/ FetchAlerts
    \/ FetchRaises
    \/ WriteCsv

Spec == Init /\ [][Next]_vars

---------------------------------------------------------------------------
(* The report writer alone, on any list of records and any admin map *)

AdminLists == {get_repo_admins(c) : c \in Collaborators}

AdminMaps == UNION {[S -> AdminLists] : S \in SUBSET RepoNames}

AnyAlertLists == AlertLists("repository") \cup AlertLists("organization")

InitWrite ==
    /\ report_scope \in ValidScopes
    /\ scope_name \in ScopeNames
    /\ requested_features = Unset
    /\ features = FEATURES
    /\ admin_details \in AdminMaps
    /\ version = <<>>
    /\ stage \in DOMAIN FEATURES
    /\ \E data \in AnyAlertLists :
          lists = [f \in Range(FEATURES) |->
                      IF f = Order(report_scope)[stage] THEN data ELSE <<>>]
    /\ files = <<>>
    /\ pc = "write"
    /\ exc = <<>>
    /\ exit_code = -1
    /\ stderr = ""
    /\ trace = <<>>

NextWrite == WriteCsv

SpecWrite == InitWrite /\ [][NextWrite]_vars

---------------------------------------------------------------------------
(* Vocabulary of the properties *)

StageOf(scope, feature) == CHOOSE i \in DOMAIN Order(scope) : Order(scope)[i] = feature

AlertRequests == {"alerts", "repo_alerts", "enterprise_alerts"}

IsFetchError(ev) == ev.kind = "error" /\ ev.detail \in {"fetch", "probe"}

\* a write_csv_with_admins call that returned
Written(k) ==
    /\ trace[k].kind = "write"
    /\ ~(k < Len(trace) /\ trace[k + 1].kind = "error" /\ trace[k + 1].detail = "write")

\* the text holds one of the phrases main.py recognizes, of either list
RecognizedDisabled(text) ==
    \E x \in Range(secret_scanning_disabled_strings)
             \cup Range(dependabot_disabled_strings) : Contains(Lower(text), x)

\* the text holds one of the phrases of the feature's own list
OwnDisabled(feature, text) ==
    \/ /\ feature = "secretscanning"
       /\ \E x \in Range(secret_scanning_disabled_strings) : Contains(Lower(text), x)
    \/ /\ feature = "dependabot"
       /\ \E x \in Range(dependabot_disabled_strings) : Contains(Lower(text), x)

\* blocks after the one of `feature` whose feature is requested
LaterRequested(feature) ==
    {j \in DOMAIN Order(report_scope) :
        j > StageOf(report_scope, feature) /\ InList(Order(report_scope)[j], features)}

Min(S) == CHOOSE x \in S : \A y \in S : x <= y

\* after the failure at trace[i]: no CSV of the feature, the run has not
\* ended on it, and the next requested feature is reached and fetched
SkippedAndContinued(i) ==
    LET f == trace[i].feature
    IN  /\ FileName(report_scope, f) \notin DOMAIN files
        /\ ~(pc = "raised" /\ i = Len(trace))
        /\ LaterRequested(f) # {} =>
              LET m == Min(LaterRequested(f))
              IN  \/ pc \in {"gate", "probe", "fetch"} /\ stage <= m
                  \/ \E k \in DOMAIN trace :
                        /\ k > i
                        /\ trace[k].kind = "request"
                        /\ trace[k].feature = Order(report_scope)[m]

---------------------------------------------------------------------------
(* C1 *)

\* C1, as stated: whatever the feature, a fetch that fails with a text that
\* holds a recognized "not enabled"/"disabled" phrase produces no CSV, does
\* not end the run, and the next requested feature is fetched.
C1_AnyDisabledErrorSkips ==
    \A i \in DOMAIN trace :
        (IsFetchError(trace[i]) /\ RecognizedDisabled(trace[i].text))
            => SkippedAndContinued(i)

\* C1, amended: a secret scanning or Dependabot fetch that fails with a text
\* holding one of that feature's own phrases (case ignored) produces no CSV
\* of the feature, does not end the run, and the next requested feature of
\* the scope's order is fetched.
C1_OwnDisabledErrorSkips ==
    \A i \in DOMAIN trace :
        (IsFetchError(trace[i]) /\ OwnDisabled(trace[i].feature, trace[i].text))
            => SkippedAndContinued(i)

\* a Dependabot fetch was skipped on a capitalized "not enabled" text and the
\* secret scanning fetch that follows it was issued
C1_Witness ==
    \E i, k \in DOMAIN trace :
        /\ IsFetchError(trace[i])
        /\ trace[i].feature = "dependabot"
        /\ Contains(trace[i].text, "Dependabot alerts are not enabled")
        /\ k > i
        /\ trace[k].kind = "request"
        /\ trace[k].feature = "secretscanning"

---------------------------------------------------------------------------
(* C2 *)

\* C2: a fetch that fails with a text holding no recognized phrase ends the
\* run there (exit status 1): no CSV of that feature or of a later one, and
\* no request for a later feature.
C2_OtherErrorTerminates ==
    \A i \in DOMAIN trace :
        (IsFetchError(trace[i]) /\ ~RecognizedDisabled(trace[i].text)) =>
            LET at == StageOf(report_scope, trace[i].feature)
            IN  /\ pc = "raised"
                /\ exit_code = 1
                /\ i = Len(trace)
                /\ \A j \in DOMAIN Order(report_scope) :
                      j >= at =>
                          FileName(report_scope, Order(report_scope)[j])
                              \notin DOMAIN files
                /\ \A k \in DOMAIN trace :
                      trace[k].feature # "" =>
                          StageOf(report_scope, trace[k].feature) <= at

\* a server error on the second feature, after the first feature's CSV
C2_Witness ==
    /\ pc = "raised"
    /\ exc = HTTPError
    /\ stage = 2
    /\ trace[Len(trace)].detail = "fetch"
    /\ DOMAIN files # {}

---------------------------------------------------------------------------
(* C3 *)

\* C3: a call of write_csv_with_admins that returns leaves in the file a
\* header equal to the first record's keys followed by "Admins", then one
\* row per record, in the records' order (each row the record's values
\* followed by one Admins field).
C3_HeaderAndRows ==
    \A k \in DOMAIN trace :
        Written(k) =>
            LET data == lists[trace[k].feature]
                file == files[trace[k].detail]
            IN  /\ Len(file) = Len(data) + 1
                /\ file[1] = Keys(data[1]) \o <<"Admins">>
                /\ \A i \in DOMAIN data :
                      /\ Len(file[i + 1]) = Len(data[i]) + 1
                      /\ SubSeq(file[i + 1], 1, Len(data[i])) = Values(data[i])

\* two records with different keys written under a two-key admin map
C3_Witness ==
    /\ Len(trace) = 1
    /\ Written(1)
    /\ Len(files[trace[1].detail]) = 3
    /\ Len(files[trace[1].detail][2]) # Len(files[trace[1].detail][3])
    /\ DOMAIN admin_details = RepoNames

---------------------------------------------------------------------------
(* C4 *)

\* the entries of the list that are feature names, in order
RECURSIVE ValidEntries(_)
ValidEntries(list) ==
    IF list = <<>> THEN <<>>
    ELSE IF InList(Head(list), FEATURES)
         THEN <<Head(list)>> \o ValidEntries(Tail(list))
         ELSE ValidEntries(Tail(list))

\* C4: for a FEATURES value that is set and is not "all", the resolved list
\* holds only names of the allow-list: every invalid entry is dropped and
\* every valid entry is kept.
C4_OnlyAllowListed ==
    (pc # "config" /\ requested_features.set
                   /\ Concat(requested_features.pieces) # "all")
        => features = ValidEntries(Split(requested_features.pieces))

---------------------------------------------------------------------------
(* C5 *)

\* C5: with a report scope that is none of the three, the run issues no HTTP
\* request and writes no file, and it ends in exit("Invalid report scope")
\* with status 1 and in no other way.
C5_InvalidScopeExits ==
    report_scope \notin ValidScopes =>
        /\ trace = <<>>
        /\ files = <<>>
        /\ DOMAIN admin_details = {}
        /\ pc \in {"config", "admins", "dispatch", "exit"}
        /\ pc = "exit" => (exit_code = 1 /\ stderr = "Invalid report scope")
        /\ pc # "exit" => (exit_code = -1 /\ ENABLED Next)

C5_Witness ==
    /\ report_scope = "team"
    /\ pc = "exit"
    /\ exit_code = 1

---------------------------------------------------------------------------
(* C6 *)

Digits == <<"0", "1", "2", "3", "4", "5", "6", "7", "8", "9">>

DigitValue(c) == (CHOOSE i \in DOMAIN Digits : Digits[i] = c) - 1

RECURSIVE NumberOf(_)
\* the number a sequence of digits writes
NumberOf(chars) ==
    IF chars = <<>> THEN 0
    ELSE 10 * NumberOf(SubSeq(chars, 1, Len(chars) - 1))
         + DigitValue(chars[Len(chars)])

RECURSIVE FieldsFrom(_, _, _, _)
FieldsFrom(chars, i, cur, acc) ==
    IF i > Len(chars) THEN Append(acc, cur)
    ELSE IF chars[i] = "." THEN FieldsFrom(chars, i + 1, <<>>, Append(acc, cur))
    ELSE FieldsFrom(chars, i + 1, Append(cur, chars[i]), acc)

\* the dot-separated fields of a version string
Fields(v) == FieldsFrom(v, 1, <<>>, <<>>)

\* major.minor[.patch] with numeric major and minor
IsRelease(v) ==
    /\ Len(Fields(v)) >= 2
    /\ \A n \in 1..2 :
          /\ Fields(v)[n] # <<>>
          /\ \A i \in DOMAIN Fields(v)[n] : InList(Fields(v)[n][i], Digits)

Major(v) == NumberOf(Fields(v)[1])
Minor(v) == NumberOf(Fields(v)[2])

LoopedRequests == {"repo_report", "repo_alerts"}

\* C6: in enterprise scope the code scanning fetch follows the probed
\* version: releases 3.5 and 3.6 use the per-repository loop, releases 3.7
\* and above the enterprise-wide endpoint, and a run never uses both.
C6_StrategyByVersion ==
    report_scope = "enterprise" =>
        /\ \A k \in DOMAIN trace :
              (trace[k].feature = "codescanning" /\ trace[k].kind = "request"
                  /\ trace[k].detail \in LoopedRequests \cup {"enterprise_alerts"}
                  /\ IsRelease(version)) =>
                    /\ (Major(version) = 3 /\ Minor(version) \in {5, 6})
                          => trace[k].detail \in LoopedRequests
                    /\ (Major(version) > 3 \/ (Major(version) = 3 /\ Minor(version) >= 7))
                          => trace[k].detail = "enterprise_alerts"
        /\ ~\E k, m \in DOMAIN trace :
              /\ trace[k].detail \in LoopedRequests
              /\ trace[m].detail = "enterprise_alerts"

---------------------------------------------------------------------------
(* C7 *)

AdminsColumn(row) == row[Len(row)]

\* C7: in repository scope every row of every CSV of the run has an Admins
\* column equal to the comma-joined admin list the lookup returned for
\* SCOPE_NAME.
C7_RepositoryRowsCarryScopeAdmins ==
    report_scope = "repository" =>
        \A name \in DOMAIN files :
            \A i \in DOMAIN files[name] :
                i > 1 => AdminsColumn(files[name][i]) = Join(admin_details[scope_name])

\* a row written from a record without "repository" key, with two admins
C7_Witness ==
    /\ report_scope = "repository"
    /\ scope_name \in DOMAIN admin_details
    /\ Len(admin_details[scope_name]) = 2
    /\ \E name \in DOMAIN files :
          /\ Len(files[name]) > 1
          /\ AdminsColumn(files[name][2]) = "alice, bob"

---------------------------------------------------------------------------
(* C8 *)

ClaimedOrder(scope) ==
    CASE scope = "enterprise" -> <<"secretscanning", "codescanning", "dependabot">>
      [] scope \in {"organization", "repository"}
                              -> <<"codescanning", "dependabot", "secretscanning">>

Position(scope, feature) ==
    CHOOSE i \in DOMAIN ClaimedOrder(scope) : ClaimedOrder(scope)[i] = feature

\* C8: only requested features are fetched, each at most once, in the order
\* secret scanning, code scanning, Dependabot (enterprise) or code scanning,
\* Dependabot, secret scanning (organization, repository); a CSV is written
\* right after its feature's fetch returned, before any later fetch.
C8_FixedOrder ==
    report_scope \in ValidScopes =>
        /\ \A k \in DOMAIN trace :
              trace[k].feature # "" => InList(trace[k].feature, features)
        /\ \A k, m \in DOMAIN trace :
              (k < m /\ trace[k].feature # "" /\ trace[m].feature # "") =>
                  /\ Position(report_scope, trace[k].feature)
                        <= Position(report_scope, trace[m].feature)
                  /\ (trace[k].kind = "request" /\ trace[m].kind = "request"
                        /\ trace[k].feature = trace[m].feature)
                          => trace[k].detail # trace[m].detail
                  /\ ~(trace[k].detail \in AlertRequests /\ trace[m].detail \in AlertRequests
                        /\ trace[k].feature = trace[m].feature)
        /\ \A k \in DOMAIN trace :
              trace[k].kind = "write" =>
                  /\ k > 1
                  /\ trace[k - 1].kind = "request"
                  /\ trace[k - 1].detail \in AlertRequests
                  /\ trace[k - 1].feature = trace[k].feature

\* an organization run that fetched and wrote all three features
C8_Witness ==
    /\ report_scope = "organization"
    /\ pc = "finished"
    /\ Cardinality({k \in DOMAIN trace : trace[k].kind = "write"}) = 3
    /\ trace[Len(trace)].feature = "secretscanning"

---------------------------------------------------------------------------
(* C9 *)

\* C9: a fetch that succeeds, with any number of alerts, is followed by a
\* CSV of the scope's and feature's name holding a header and one row per
\* alert, and the run goes on: the write neither ends the run nor leaves a
\* file without header.
C9_SuccessfulFetchWritesFile ==
    /\ \A k \in DOMAIN trace :
          trace[k].kind = "write" =>
              /\ trace[k].detail \in DOMAIN files
              /\ Len(files[trace[k].detail]) = Len(lists[trace[k].feature]) + 1
    /\ \A k \in DOMAIN trace :
          ~(trace[k].kind = "error" /\ trace[k].detail = "write")
    /\ \A name \in DOMAIN files : files[name] # <<>>

---------------------------------------------------------------------------
(* C10 *)

HasKey(record, key) == \E i \in DOMAIN record : record[i][1] = key

====
